---- MODULE Spec2Model ----
(***************************************************************************)
(* Model of helpers/disk.py: BlockDevice, Partition, luks2 and Filesystem. *)
(*                                                                         *)
(* Python strings that the code formats, slices or takes the basename of   *)
(* are sequences of one-character strings; None is a value of the same     *)
(* shape that is no string.  Names of tools and verbs, which the code only *)
(* writes as literals, are TLA+ strings.                                   *)
(***************************************************************************)
EXTENDS Integers, Sequences, FiniteSets, TLC

----------------------------------------------------------------------------
(* Python values *)

None == <<"None">>
Empty == <<>>

\* Python truthiness of a string-or-None value: `if x:` / `if not x:`
Truthy(v) == v # None /\ v # Empty

\* f'{v}': str() of a string is the string, of None the text "None"
Str(v) == IF v = None THEN <<"N","o","n","e">> ELSE v

RECURSIVE LastSlash(_, _)
LastSlash(s, i) ==
    IF i = 0 THEN 0
    ELSE IF s[i] = "/" THEN i
    ELSE LastSlash(s, i - 1)

\* os.path.basename: what follows the last "/"
Basename(s) == SubSeq(s, LastSlash(s, Len(s)) + 1, Len(s))

----------------------------------------------------------------------------
(* String literals of the source and of the inputs *)

sLoop == <<"l","o","o","p">>
sDisk == <<"d","i","s","k">>
sCrypt == <<"c","r","y","p","t">>
sPart == <<"p","a","r","t">>
sDev == <<"/","d","e","v","/">>
sMapper == <<"/","d","e","v","/","m","a","p","p","e","r","/">>
sPrimary == <<"p","r","i","m","a","r","y">>
sFat32 == <<"f","a","t","3","2">>
sExt4 == <<"e","x","t","4">>
sBtrfs == <<"b","t","r","f","s">>
sVfat == <<"v","f","a","t">>
sLuks2 == <<"l","u","k","s","2">>
sLvm == <<"l","v","m">>
s1MiB == <<"1","M","i","B">>
s513MiB == <<"5","1","3","M","i","B">>
s100pct == <<"1","0","0","%">>
sEFI == <<"E","F","I">>
sBootOn == <<"b","o","o","t"," ","o","n">>
sEspOn == <<"e","s","p"," ","o","n">>

pSda == <<"/","d","e","v","/","s","d","a">>
pLoop0 == <<"/","d","e","v","/","l","o","o","p","0">>
pLoop1 == <<"/","d","e","v","/","l","o","o","p","1">>
pDm0 == <<"/","d","e","v","/","d","m","-","0">>
pImg == <<"/","i","m","g">>
pIso == <<"/","i","s","o">>
sSda2 == <<"s","d","a","2">>
pMnt == <<"/","m","n","t">>
pBoot == <<"/","m","n","t","/","b","o","o","t">>
sLuksdev == <<"l","u","k","s","d","e","v">>
sSub == <<"a","/","b">>
pKey == <<"/","t","m","p","/","k">>

----------------------------------------------------------------------------
(* Bounds *)

\* operations the body of a Filesystem scope performs
MaxBodyOps == 2
\* calls made on one Partition
MaxPartOps == 3
\* calls made on one luks2 object
MaxLuksOps == 3

GPT == 1

----------------------------------------------------------------------------

VARIABLES
    blockdevice,  \* Filesystem.blockdevice: [path, info]
    mode,         \* Filesystem.mode
    loopdevices,  \* the live loop-device table `losetup --json` answers with
    pc,           \* where the `with Filesystem(...)` statement stands
    cmds,         \* every sys_command issued, in order
    call,         \* the most recent call: operation, arguments, result, exception
    bodyExc,      \* the exception the body of the scope raised, None if none
    nOps,         \* calls made so far
    part,         \* a Partition: [path, part_id, mountpoint, filesystem, size]
    mounts,       \* every libc.mount call made, in order
    trueFormats,  \* number of format calls that returned True
    mapper,       \* the links that exist under /dev/mapper
    lpc,          \* where the `with luks2(...)` statement stands
    files,        \* the key-files written: path -> [data, at], at the number
                  \* of commands issued before the write
    lsblk         \* what `lsblk -J <path>` answers with at this moment

vars == <<blockdevice, mode, loopdevices, pc, cmds, call, bodyExc, nOps,
          part, mounts, trueFormats, mapper, lpc, files, lsblk>>

----------------------------------------------------------------------------
(* sys_command: the log entry of one external command *)

Cmd(prog, verb, dev, num, args, ec) ==
    [prog |-> prog, verb |-> verb, dev |-> dev, num |-> num, args |-> args,
     exit_code |-> ec]

ExitCodes == {0, 1}

\* no answer: nothing has been asked
NoListing == [out |-> "none", blockdevices |-> <<>>]

NoCall == [op |-> "none", args |-> <<>>, ret |-> [t |-> "None"],
           exc |-> [t |-> "None"], c0 |-> 0]

NoExc == [t |-> "None"]
DiskError == [t |-> "DiskError"]
OSError(errno) == [t |-> "OSError", errno |-> errno]
RetNone == [t |-> "None"]
RetBool(b) == [t |-> "bool", v |-> b]
RetSelf == [t |-> "self"]
RetStr(s) == [t |-> "str", v |-> s]
RetPartition(p) == [t |-> "Partition", v |-> p]

----------------------------------------------------------------------------
(* BlockDevice *)

HasKey(info, k) == k \in DOMAIN info

\* the loop over ['loopdevices']: the back-file of the first entry whose name
\* is the path; running off the end leaves the property without a return
LoopBackFileOfFirst(loops, path, i) ==
    IF Len(loops) = 0 THEN None ELSE loops[1].backfile

RECURSIVE LoopBackFile(_, _, _)
LoopBackFile(loops, path, i) ==
    IF i > Len(loops) THEN None
    ELSE IF loops[i].name = path THEN loops[i].backfile
    ELSE LoopBackFile(loops, path, i + 1)

IsLoop(bd) == HasKey(bd.info, "type") /\ bd.info["type"] = sLoop

Losetup == Cmd("losetup", "--json", Empty, 0, <<>>, 0)

\* BlockDevice.device: the exception raised or the value returned, and the
\* queries issued on the way
Device(bd, loops) ==
    IF ~HasKey(bd.info, "type")
    THEN [exc |-> DiskError, val |-> None, queries |-> <<>>]
    ELSE IF bd.info["type"] = sLoop
    THEN [exc |-> NoExc, val |-> LoopBackFile(loops, bd.path, 1),
          queries |-> <<Losetup>>]
    ELSE IF bd.info["type"] = sDisk
    THEN [exc |-> NoExc, val |-> bd.path, queries |-> <<>>]
    ELSE IF bd.info["type"] = sCrypt
    THEN IF ~HasKey(bd.info, "pkname")
         THEN [exc |-> DiskError, val |-> None, queries |-> <<>>]
         ELSE [exc |-> NoExc, val |-> sDev \o bd.info["pkname"], queries |-> <<>>]
    ELSE [exc |-> NoExc, val |-> None, queries |-> <<>>]

BlockDevices ==
    { [path |-> pSda, info |-> ("type" :> sDisk)],
      [path |-> pLoop0, info |-> ("type" :> sLoop)],
      [path |-> pDm0, info |-> ("type" :> sCrypt @@ "pkname" :> sSda2)],
      [path |-> pDm0, info |-> ("type" :> sCrypt)],
      [path |-> pSda, info |-> ("pkname" :> sSda2)],
      [path |-> pSda, info |-> ("type" :> sPart)] }

LoopTables ==
    { <<>>,
      <<[name |-> pLoop1, backfile |-> pIso], [name |-> pLoop0, backfile |-> pImg]>> }

----------------------------------------------------------------------------
(* Filesystem: the partition-table session *)

Modes == {GPT, 0, 2}

\* `.exit_code == 0` of __enter__
LabelWrittenAlways(ec) == TRUE
LabelWrittenInverted(ec) == ec # 0
LabelWritten(ec) == ec = 0

ModeIsAnyNonZero(m) == m # 0
ModeIsGPT(m) == m = GPT

Parted(dev, step, ec) ==
    Cmd("/usr/bin/parted", step.verb, Str(dev), step.num, step.args, ec)

Mklabel == [verb |-> "mklabel", num |-> 0, args |-> <<<<"g","p","t">>>>]

\* Filesystem.__enter__
enter(m, bd, loops, ec) ==
    IF ModeIsGPT(m)
    THEN LET d == Device(bd, loops) IN
         IF d.exc.t # "None"
         THEN [out |-> d.queries, ret |-> RetNone, exc |-> d.exc]
         ELSE IF LabelWritten(ec)
         THEN [out |-> d.queries \o <<Parted(d.val, Mklabel, ec)>>,
               ret |-> RetSelf, exc |-> NoExc]
         \* the message of the DiskError formats blockdevice.device once more
         ELSE [out |-> d.queries \o <<Parted(d.val, Mklabel, ec)>> \o d.queries,
               ret |-> RetNone, exc |-> DiskError]
    ELSE [out |-> <<>>, ret |-> RetNone, exc |-> DiskError]

\* the exit code of `sync` is never read
Sync == Cmd("sync", "", Empty, 0, <<>>, 0)

\* Filesystem.__exit__: the command it issues and what it returns; exc is the
\* exception in flight, which it ignores
exitSyncsOnSuccess(exc) ==
    [out |-> IF exc.t = "None" THEN <<Sync>> ELSE <<>>, ret |-> RetNone]
exit(exc) == [out |-> <<Sync>>, ret |-> RetNone]

\* the with statement suppresses the exception iff __exit__ returns a true value
Suppressed(ret) == ret.t = "bool" /\ ret.v

\* `parted(...) == 0`
Succeeded(ec) == ec = 0

add_partition(type, start, end, format) ==
    IF Truthy(format)
    THEN [verb |-> "mkpart", num |-> 0, args |-> <<type, format, start, end>>]
    ELSE [verb |-> "mkpart", num |-> 0, args |-> <<type, start, end>>]

set_name_zero_based(partition, name) ==
    [verb |-> "name", num |-> partition, args |-> <<name>>]

set_name(partition, name) ==
    [verb |-> "name", num |-> partition + 1, args |-> <<name>>]

set(partition, string) ==
    [verb |-> "set", num |-> partition + 1, args |-> <<string>>]

second_partition_swapped(prep_mode) ==
    IF prep_mode # sLuks2
    THEN add_partition(sPrimary, s513MiB, s100pct, None)
    ELSE add_partition(sPrimary, s1MiB, s513MiB, sExt4)

\* the if/else that ends use_entire_disk
second_partition(prep_mode) ==
    IF prep_mode = sLuks2
    THEN add_partition(sPrimary, s513MiB, s100pct, None)
    ELSE add_partition(sPrimary, s1MiB, s513MiB, sExt4)

use_entire_disk(prep_mode) ==
    << add_partition(sPrimary, s1MiB, s513MiB, sFat32),
       set_name(0, sEFI),
       set(0, sBootOn),
       set(0, sEspOn),
       second_partition(prep_mode) >>

RECURSIVE IssueUntilFailure(_, _, _, _)
IssueUntilFailure(steps, ecs, d, i) ==
    IF i > Len(steps) THEN <<>>
    ELSE d.queries \o <<Parted(d.val, steps[i], ecs[i])>>
         \o (IF ecs[i] # 0 THEN <<>> ELSE IssueUntilFailure(steps, ecs, d, i + 1))

\* each step formats blockdevice.device into its command and runs it
RECURSIVE Issue(_, _, _, _)
Issue(steps, ecs, d, i) ==
    IF i > Len(steps) THEN <<>>
    ELSE d.queries \o <<Parted(d.val, steps[i], ecs[i])>>
         \o Issue(steps, ecs, d, i + 1)

Run(steps, ecs, bd, loops) ==
    LET d == Device(bd, loops) IN
    IF d.exc.t # "None"
    THEN [out |-> d.queries, exc |-> d.exc]
    ELSE [out |-> Issue(steps, ecs, d, 1), exc |-> NoExc]

AddPartitionInputs ==
    { <<sPrimary, s1MiB, s513MiB, sFat32>>,
      <<sPrimary, s513MiB, s100pct, None>>,
      <<sPrimary, s513MiB, s100pct, Empty>> }

PartitionIndexes == {0, 1}
Names == {sEFI}
Flags == {sBootOn, sEspOn}
PrepModes == {sLuks2, None, sLvm}

\* exit codes of the five commands of use_entire_disk
ExitCodeRuns ==
    { <<0, 0, 0, 0, 0>>, <<1, 0, 0, 0, 0>>, <<0, 1, 1, 1, 1>> }

FsUnchanged == UNCHANGED <<part, mounts, trueFormats, mapper, lpc, files, lsblk>>

\* a call made in the body of the scope, which the with statement runs only
\* once __enter__ has returned: its commands, its result, and the exception
\* that ends the body if it raised
BodyCall(op, args, r, ret) ==
    /\ pc = "Active"
    /\ nOps < MaxBodyOps
    /\ nOps' = nOps + 1
    /\ cmds' = cmds \o r.out
    /\ call' = [op |-> op, args |-> args, exc |-> r.exc, c0 |-> Len(cmds),
                ret |-> IF r.exc.t = "None" THEN ret ELSE RetNone]
    /\ pc' = IF r.exc.t = "None" THEN "Active" ELSE "Unwinding"
    /\ bodyExc' = r.exc
    /\ UNCHANGED <<blockdevice, mode, loopdevices>>
    /\ FsUnchanged

Enter ==
    /\ pc = "Unopened"
    /\ \E ec \in ExitCodes :
         LET r == enter(mode, blockdevice, loopdevices, ec) IN
         /\ cmds' = cmds \o r.out
         /\ call' = [op |-> "__enter__", args |-> <<>>, ret |-> r.ret,
                     exc |-> r.exc, c0 |-> Len(cmds)]
         /\ pc' = IF r.exc.t = "None" THEN "Active" ELSE "Failed"
    /\ UNCHANGED <<blockdevice, mode, loopdevices, bodyExc, nOps>>
    /\ FsUnchanged

AddPartition ==
    \E a \in AddPartitionInputs, ec \in ExitCodes :
        BodyCall("add_partition", a,
                 Run(<<add_partition(a[1], a[2], a[3], a[4])>>, <<ec>>,
                     blockdevice, loopdevices),
                 RetBool(Succeeded(ec)))

SetName ==
    \E i \in PartitionIndexes, name \in Names, ec \in ExitCodes :
        BodyCall("set_name", <<i, name>>,
                 Run(<<set_name(i, name)>>, <<ec>>, blockdevice, loopdevices),
                 RetBool(Succeeded(ec)))

Set ==
    \E i \in PartitionIndexes, string \in Flags, ec \in ExitCodes :
        BodyCall("set", <<i, string>>,
                 Run(<<set(i, string)>>, <<ec>>, blockdevice, loopdevices),
                 RetBool(Succeeded(ec)))

UseEntireDisk ==
    \E prep_mode \in PrepModes, ecs \in ExitCodeRuns :
        BodyCall("use_entire_disk", <<prep_mode>>,
                 Run(use_entire_disk(prep_mode), ecs, blockdevice, loopdevices),
                 RetNone)

\* the body of the scope raises: Partition.format's or luks2.encrypt's DiskError
BodyRaise ==
    /\ pc = "Active"
    /\ pc' = "Unwinding"
    /\ bodyExc' = DiskError
    /\ UNCHANGED <<blockdevice, mode, loopdevices, cmds, call, nOps>>
    /\ FsUnchanged

\* leaving the scope, normally or with the body's exception in flight
Exit ==
    /\ pc \in {"Active", "Unwinding"}
    /\ lpc \in {"Out", "Left"}
    /\ LET r == exit(bodyExc) IN
         /\ cmds' = cmds \o r.out
         /\ call' = [op |-> "__exit__", args |-> <<>>, ret |-> r.ret,
                     exc |-> IF Suppressed(r.ret) THEN NoExc ELSE bodyExc,
                     c0 |-> Len(cmds)]
    /\ pc' = "Closed"
    /\ UNCHANGED <<blockdevice, mode, loopdevices, bodyExc, nOps>>
    /\ FsUnchanged

\* another process detaches the loop devices (`losetup -D`); only a
\* BlockDevice of type loop reads the table
LosetupDetach ==
    /\ pc \in {"Unopened", "Active"}
    /\ IsLoop(blockdevice)
    /\ loopdevices # <<>>
    /\ loopdevices' = <<>>
    /\ UNCHANGED <<blockdevice, mode, pc, cmds, call, bodyExc, nOps>>
    /\ FsUnchanged

NoPartition == [path |-> Empty, part_id |-> Empty, mountpoint |-> None,
                filesystem |-> None, size |-> 0 - 1]

InitFs ==
    /\ blockdevice \in BlockDevices
    /\ mode \in Modes
    /\ loopdevices \in LoopTables
    /\ IsLoop(blockdevice) \/ loopdevices = <<>>
    /\ pc = "Unopened"
    /\ cmds = <<>>
    /\ call = NoCall
    /\ bodyExc = NoExc
    /\ nOps = 0
    /\ part = NoPartition
    /\ mounts = <<>>
    /\ trueFormats = 0
    /\ mapper = {}
    /\ lpc = "Out"
    /\ files = <<>>
    /\ lsblk = NoListing

NextFs ==
    \/ Enter
    \/ AddPartition
    \/ SetName
    \/ Set
    \/ UseEntireDisk
    \/ BodyRaise
    \/ Exit
    \/ LosetupDetach

SpecFs == InitFs /\ [][NextFs]_vars

----------------------------------------------------------------------------
(* Partition *)

\* Partition.__init__
Partition(path, part_id, size) ==
    [path |-> path,
     part_id |-> IF ~Truthy(part_id) THEN Basename(path) ELSE part_id,
     mountpoint |-> None,
     filesystem |-> None,
     size |-> size]

\* what the code looks for in the output of a format tool
Markers == {"UUID", "mkfs.fat", "mkfs.vfat", "command not found"}

Mkfs(prog, verb, path) == Cmd(prog, verb, path, 0, <<>>, 0)

btrfsSucceededAlways(o) == TRUE
\* `b'UUID' in o`
btrfsSucceeded(o) == "UUID" \in o

\* `(b'mkfs.fat' not in o and b'mkfs.vfat' not in o) or b'command not found' in o`
fat32Failed(o) ==
    ("mkfs.fat" \notin o /\ "mkfs.vfat" \notin o) \/ "command not found" \in o

\* Partition.format, o the output of the tool it runs
format(p, filesystem, o) ==
    IF filesystem = sBtrfs
    THEN IF ~btrfsSucceeded(o)
         THEN [part |-> p, out |-> <<Mkfs("/usr/bin/mkfs.btrfs", "-f", p.path)>>,
               ret |-> RetBool(FALSE), exc |-> NoExc]
         ELSE [part |-> [p EXCEPT !.filesystem = sBtrfs],
               out |-> <<Mkfs("/usr/bin/mkfs.btrfs", "-f", p.path)>>,
               ret |-> RetBool(TRUE), exc |-> NoExc]
    ELSE IF filesystem = sFat32
    THEN IF fat32Failed(o)
         THEN [part |-> p, out |-> <<Mkfs("/usr/bin/mkfs.vfat", "-F32", p.path)>>,
               ret |-> RetNone, exc |-> NoExc]
         ELSE [part |-> p, out |-> <<Mkfs("/usr/bin/mkfs.vfat", "-F32", p.path)>>,
               ret |-> RetBool(TRUE), exc |-> NoExc]
    ELSE [part |-> p, out |-> <<>>, ret |-> RetNone, exc |-> DiskError]

\* the filesystem mount passes to the kernel: `if not fs:` falls back on the
\* one format recorded
resolve_fs(p, fs) == IF ~Truthy(fs) THEN p.filesystem ELSE fs

\* `if ret < 0:`
mount_failed(ret) == ret < 0

mountpoint_after_always_target(p, target, ret) == target
\* mountpoint after the kernel call: line 115 is reached only past the raise
mountpoint_after(p, target, ret) ==
    IF mount_failed(ret) THEN p.mountpoint ELSE target

filesystem_unknown_is_none(p, fs) == fs = None /\ ~Truthy(p.filesystem)
\* `if not fs:` and under it `if not self.filesystem:`
filesystem_unknown(p, fs) == ~Truthy(fs) /\ ~Truthy(p.filesystem)

\* Partition.mount, k the outcome of libc.mount: its return value and the
\* errno it leaves
mount(p, target, fs, options, k) ==
    IF filesystem_unknown(p, fs)
    THEN [part |-> p, calls |-> <<>>, exc |-> DiskError]
    ELSE LET kernel == [source |-> p.path, target |-> target,
                        fs |-> resolve_fs(p, fs), flags |-> 0,
                        options |-> options, ret |-> k.ret, errno |-> k.errno]
         IN  [part |-> [p EXCEPT !.mountpoint = mountpoint_after(p, target, k.ret)],
              calls |-> <<kernel>>,
              exc |-> IF mount_failed(k.ret) THEN OSError(k.errno) ELSE NoExc]

pSda1 == <<"/","d","e","v","/","s","d","a","1">>
pSda2 == <<"/","d","e","v","/","s","d","a","2">>

Partitions ==
    { Partition(pSda1, <<"1">>, 512), Partition(sMapper \o sLuksdev, None, 0 - 1) }

Kinds == {sBtrfs, sFat32, sExt4}
Outputs ==
    { {}, {"UUID"}, {"mkfs.fat"}, {"mkfs.vfat", "UUID"},
      {"mkfs.fat", "command not found"} }
Targets == {pMnt, pBoot}
FsArgs == {None, Empty, sBtrfs, sVfat}
\* libc.mount returns 0, or -1 with errno EPERM or ENODEV
KernelOutcomes ==
    { [ret |-> 0, errno |-> 0], [ret |-> 0 - 1, errno |-> 1],
      [ret |-> 0 - 1, errno |-> 19] }

PartUnchanged ==
    UNCHANGED <<blockdevice, mode, loopdevices, pc, bodyExc, mapper, lpc, files,
                lsblk>>

Format ==
    /\ nOps < MaxPartOps
    /\ \E filesystem \in Kinds, o \in Outputs :
         LET r == format(part, filesystem, o) IN
         /\ part' = r.part
         /\ cmds' = cmds \o r.out
         /\ call' = [op |-> "format", args |-> <<filesystem, o>>, ret |-> r.ret,
                     exc |-> r.exc, c0 |-> Len(cmds)]
         /\ trueFormats' =
              IF r.ret.t = "bool" /\ r.ret.v THEN trueFormats + 1 ELSE trueFormats
    /\ nOps' = nOps + 1
    /\ UNCHANGED mounts
    /\ PartUnchanged

Mount ==
    /\ nOps < MaxPartOps
    /\ \E target \in Targets, fs \in FsArgs, k \in KernelOutcomes :
         LET r == mount(part, target, fs, Empty, k) IN
         /\ part' = r.part
         /\ mounts' = mounts \o r.calls
         /\ call' = [op |-> "mount", args |-> <<target, fs>>, ret |-> RetNone,
                     exc |-> r.exc, c0 |-> Len(mounts)]
    /\ nOps' = nOps + 1
    /\ UNCHANGED <<cmds, trueFormats>>
    /\ PartUnchanged

NoBlockDevice == [path |-> Empty, info |-> <<>>]

InitPart ==
    /\ blockdevice = NoBlockDevice
    /\ mode = GPT
    /\ loopdevices = <<>>
    /\ pc = "Unopened"
    /\ cmds = <<>>
    /\ call = NoCall
    /\ bodyExc = NoExc
    /\ nOps = 0
    /\ part \in Partitions
    /\ mounts = <<>>
    /\ trueFormats = 0
    /\ mapper = {}
    /\ lpc = "Out"
    /\ files = <<>>
    /\ lsblk = NoListing

NextPart ==
    \/ Format
    \/ Mount

SpecPart == InitPart /\ [][NextPart]_vars

----------------------------------------------------------------------------
(* luks2 *)

MapperPath(mountpoint) == sMapper \o mountpoint

Cryptsetup(verb, path, args, ec) == Cmd("/usr/bin/cryptsetup", verb, path, 0, args, ec)

link_checked_by_exit_code(links, mountpoint, ec) == ec = 0
\* `os.path.islink(f'/dev/mapper/{mountpoint}')` after the command has run; the
\* exit code of the command is at hand and not looked at
link_checked(links, mountpoint, ec) == MapperPath(mountpoint) \in links

\* `Partition(f'/dev/mapper/{mountpoint}')`
unlocked(mountpoint) == Partition(MapperPath(mountpoint), None, 0 - 1)

\* luks2.unlock, links the links under /dev/mapper once the command has run.
\* Line 152 computes a basename and drops it.
unlock(partition, mountpoint, key_file, ec, links) ==
    [out |-> <<Cryptsetup("open", partition.path, <<mountpoint, key_file>>, ec)>>,
     ret |-> IF link_checked(links, mountpoint, ec)
             THEN RetPartition(unlocked(mountpoint))
             ELSE RetNone,
     exc |-> NoExc]

close_by_exit_code(mountpoint, ec, links) ==
    [out |-> <<Cmd("cryptsetup", "close", MapperPath(mountpoint), 0, <<>>, ec)>>,
     ret |-> RetBool(ec = 0),
     exc |-> NoExc]

\* luks2.close, links the links under /dev/mapper once the command has run
close(mountpoint, ec, links) ==
    [out |-> <<Cmd("cryptsetup", "close", MapperPath(mountpoint), 0, <<>>, ec)>>,
     ret |-> RetBool(~(MapperPath(mountpoint) \in links)),
     exc |-> NoExc]

\* luks2.__enter__
luks_enter == [ret |-> RetSelf, exc |-> NoExc]

luks_exit_swallows(exc) == [ret |-> RetBool(TRUE), exc |-> NoExc]
\* luks2.__exit__, exc the exception in flight (args[1]), None if there is none
luks_exit(exc) ==
    IF exc.t # "None"
    THEN [ret |-> RetNone, exc |-> exc]
    ELSE [ret |-> RetBool(TRUE), exc |-> NoExc]

sTmp == <<"/","t","m","p","/">>
sDiskPw == <<".","d","i","s","k","_","p","w">>
sSha512 == <<"s","h","a","5","1","2">>
s512 == <<"5","1","2">>
s10000 == <<"1","0","0","0","0">>
sCwd == <<"/","r","o","o","t">>
sK == <<"k">>

\* os.path.abspath of a normalised path: a relative one is joined to the
\* working directory
Abspath(path) ==
    IF path # Empty /\ path[1] = "/" THEN path ELSE sCwd \o <<"/">> \o path

\* the UTF-8 byte of a character of the passwords used
Utf8(c) == CASE c = "p" -> 112 [] c = "w" -> 119

\* `if type(password) != bytes: password = bytes(password, 'UTF-8')`
Bytes(password) ==
    IF password.t # "bytes"
    THEN [i \in 1..Len(password.v) |-> Utf8(password.v[i])]
    ELSE password.v

WriteStep(path, data) == [k |-> "write", path |-> path, data |-> data, cmd |-> Sync]
RunStep(cmd) == [k |-> "run", path |-> Empty, data |-> <<>>, cmd |-> cmd]

RECURSIVE RunSteps(_, _)
RunSteps(queries, i) ==
    IF i > Len(queries) THEN <<>>
    ELSE <<RunStep(queries[i])>> \o RunSteps(queries, i + 1)

\* the key-file encrypt uses: the one given, or one named after the device
default_key_file(key_file, device) ==
    IF ~Truthy(key_file) THEN sTmp \o Basename(device) \o sDiskPw ELSE key_file

LuksFormat(partition, key_file) ==
    Cryptsetup("luksFormat", partition.path,
               <<sSha512, s512, s10000, Abspath(key_file)>>, 0)

encrypt_steps_run_first(partition, password, key_file) ==
    << RunStep(LuksFormat(partition, key_file)),
       WriteStep(Abspath(key_file), Bytes(password)) >>
\* what encrypt does once it has its key-file, in order: `with open(key_file,
\* 'wb') as fh: fh.write(password)`, then the cryptsetup command
encrypt_steps(partition, password, key_file) ==
    << WriteStep(Abspath(key_file), Bytes(password)),
       RunStep(LuksFormat(partition, key_file)) >>

\* `b'Command successful.' in o`
encrypt_succeeded(o) == "Command successful." \in o

\* luks2.encrypt with the default key_size, hash_type and iter_time, o the
\* output of the cryptsetup command
encrypt(bd, loops, partition, password, key_file, o) ==
    LET d == IF ~Truthy(key_file) THEN Device(bd, loops)
             ELSE [exc |-> NoExc, val |-> Empty, queries |-> <<>>]
    IN  IF d.exc.t # "None"
        THEN [steps |-> RunSteps(d.queries, 1), ret |-> RetNone, exc |-> d.exc]
        ELSE IF d.val = None
        \* os.path.basename(None)
        THEN [steps |-> RunSteps(d.queries, 1), ret |-> RetNone,
              exc |-> [t |-> "TypeError"]]
        ELSE LET kf == default_key_file(key_file, d.val) IN
             [steps |-> RunSteps(d.queries, 1) \o encrypt_steps(partition, password, kf),
              ret |-> IF encrypt_succeeded(o) THEN RetStr(kf) ELSE RetNone,
              exc |-> IF encrypt_succeeded(o) THEN NoExc ELSE DiskError]

\* the files and the command log after the steps, taken in order
RECURSIVE Apply(_, _, _, _)
Apply(steps, i, fs, cs) ==
    IF i > Len(steps) THEN [files |-> fs, cmds |-> cs]
    ELSE IF steps[i].k = "write"
    THEN Apply(steps, i + 1,
               (steps[i].path :> [data |-> steps[i].data, at |-> Len(cs)]) @@ fs,
               cs)
    ELSE Apply(steps, i + 1, fs, Append(cs, steps[i].cmd))

MapperNames == {sLuksdev, sSub}
KeyFiles == {None, pKey, sK}
PasswordTypes == {"str", "bytes"}
\* the password "pw", as text or as bytes
Password(t) ==
    IF t = "str" THEN [t |-> t, v |-> <<"p","w">>] ELSE [t |-> t, v |-> <<112, 119>>]
EncryptOutputs == { {"Command successful."}, {} }

LuksUnchanged ==
    UNCHANGED <<blockdevice, mode, loopdevices, part, mounts, trueFormats, lsblk>>

\* entering the `with luks2(filesystem)` scope inside the Filesystem scope
LuksEnter ==
    /\ pc = "Active"
    /\ lpc = "Out"
    /\ lpc' = "In"
    /\ call' = [op |-> "luks2.__enter__", args |-> <<>>, ret |-> luks_enter.ret,
                exc |-> luks_enter.exc, c0 |-> Len(cmds)]
    /\ UNCHANGED <<pc, bodyExc, cmds, nOps, mapper, files>>
    /\ LuksUnchanged

Encrypt ==
    /\ lpc = "In"
    /\ nOps < MaxLuksOps
    /\ \E t \in PasswordTypes, key_file \in KeyFiles, o \in EncryptOutputs :
         LET password == Password(t)
             r == encrypt(blockdevice, loopdevices, part, password, key_file, o)
             after == Apply(r.steps, 1, files, cmds)
         IN  /\ files' = after.files
             /\ cmds' = after.cmds
             /\ call' = [op |-> "encrypt", args |-> <<password, key_file, o>>,
                         ret |-> r.ret, exc |-> r.exc, c0 |-> Len(cmds)]
             /\ lpc' = IF r.exc.t = "None" THEN "In" ELSE "Unwinding"
             /\ bodyExc' = r.exc
    /\ nOps' = nOps + 1
    /\ UNCHANGED <<pc, mapper>>
    /\ LuksUnchanged

\* the tool may or may not create the link, whatever it exits with: a link
\* left by an earlier open stays where it is
Unlock ==
    /\ lpc = "In"
    /\ nOps < MaxLuksOps
    /\ \E mountpoint \in MapperNames, ec \in ExitCodes, created \in BOOLEAN :
         LET links == IF created THEN mapper \cup {MapperPath(mountpoint)}
                      ELSE mapper
             r == unlock(part, mountpoint, pKey, ec, links)
         IN  /\ mapper' = links
             /\ cmds' = cmds \o r.out
             /\ call' = [op |-> "unlock", args |-> <<mountpoint, pKey>>,
                         ret |-> r.ret, exc |-> r.exc, c0 |-> Len(cmds)]
    /\ nOps' = nOps + 1
    /\ UNCHANGED <<pc, lpc, bodyExc, files>>
    /\ LuksUnchanged

\* the tool may or may not remove the link
Close ==
    /\ lpc = "In"
    /\ nOps < MaxLuksOps
    /\ \E mountpoint \in MapperNames, ec \in ExitCodes, removed \in BOOLEAN :
         LET links == IF removed THEN mapper \ {MapperPath(mountpoint)}
                      ELSE mapper
             r == close(mountpoint, ec, links)
         IN  /\ mapper' = links
             /\ cmds' = cmds \o r.out
             /\ call' = [op |-> "close", args |-> <<mountpoint>>,
                         ret |-> r.ret, exc |-> r.exc, c0 |-> Len(cmds)]
    /\ nOps' = nOps + 1
    /\ UNCHANGED <<pc, lpc, bodyExc, files>>
    /\ LuksUnchanged

\* leaving the luks2 scope, normally or with an exception of its body in
\* flight; what __exit__ raises ends the body of the Filesystem scope
LuksExit ==
    /\ lpc \in {"In", "Unwinding"}
    /\ LET r == luks_exit(bodyExc) IN
         /\ call' = [op |-> "luks2.__exit__", args |-> <<bodyExc>>, ret |-> r.ret,
                     exc |-> r.exc, c0 |-> Len(cmds)]
         /\ bodyExc' = r.exc
         /\ pc' = IF r.exc.t = "None" THEN "Active" ELSE "Unwinding"
    /\ lpc' = "Left"
    /\ UNCHANGED <<cmds, nOps, mapper, files>>
    /\ LuksUnchanged

InitLuks ==
    /\ blockdevice \in { [path |-> pSda, info |-> ("type" :> sDisk)],
                         [path |-> pDm0, info |-> ("type" :> sCrypt @@ "pkname" :> sSda2)] }
    /\ mode = GPT
    /\ loopdevices = <<>>
    /\ pc = "Active"
    /\ cmds = <<>>
    /\ call = NoCall
    /\ bodyExc = NoExc
    /\ nOps = 0
    /\ part = Partition(pSda2, <<"2">>, 512)
    /\ mounts = <<>>
    /\ trueFormats = 0
    /\ mapper \in {{}, {MapperPath(sLuksdev)}}
    /\ lpc = "Out"
    /\ files = <<>>
    /\ lsblk = NoListing

NextLuks ==
    \/ LuksEnter
    \/ Encrypt
    \/ Unlock
    \/ Close
    \/ LuksExit
    \/ Exit

SpecLuks == InitLuks /\ [][NextLuks]_vars

----------------------------------------------------------------------------
(* BlockDevice.partitions, and reads of BlockDevice.device *)

\* the code point of a character of a partition id
Ord(c) ==
    CASE c = "0" -> 48 [] c = "1" -> 49 [] c = "2" -> 50 [] c = "3" -> 51
      [] c = "4" -> 52 [] c = "5" -> 53 [] c = "6" -> 54 [] c = "7" -> 55
      [] c = "8" -> 56 [] c = "9" -> 57 [] c = "p" -> 112

\* a < b on Python strings: by code point, a proper prefix first
StrLess(a, b) ==
    \E i \in 1..(Len(a) + 1) :
        /\ \A j \in 1..(i - 1) : j <= Len(b) /\ a[j] = b[j]
        /\ i <= Len(b)
        /\ i > Len(a) \/ Ord(a[i]) < Ord(b[i])

\* sorted(parts): the keys of the dict in string order
RECURSIVE Sorted(_)
Sorted(keys) ==
    IF keys = {} THEN <<>>
    ELSE LET least == CHOOSE k \in keys : \A other \in keys \ {k} : StrLess(k, other)
         IN  <<least>> \o Sorted(keys \ {least})

\* `part['name'][len(os.path.basename(self.path)):]`
part_id_of(path, name) == SubSeq(name, Len(Basename(path)) + 1, Len(name))

\* the loop over the children: parts[part_id] = Partition(root_path + part_id, ...)
RECURSIVE Children(_, _, _, _, _)
Children(path, root_path, children, i, parts) ==
    IF i > Len(children) THEN parts
    ELSE LET part_id == part_id_of(path, children[i].name) IN
         Children(path, root_path, children, i + 1,
                  (part_id :> Partition(root_path \o part_id, part_id, children[i].size))
                      @@ parts)

\* `{k: parts[k] for k in sorted(parts)}`
RECURSIVE InOrder(_, _, _)
InOrder(parts, keys, i) ==
    IF i > Len(keys) THEN <<>>
    ELSE <<[k |-> keys[i], p |-> parts[keys[i]]]>> \o InOrder(parts, keys, i + 1)

probe_skipped(path) == <<>>
\* `sys_command(f'partprobe {self.path}')`
probe(path) == <<Cmd("partprobe", "", path, 0, <<>>, 0)>>

Lsblk(path) == Cmd("/usr/bin/lsblk", "-J", path, 0, <<>>, 0)

\* BlockDevice.partitions, listing what lsblk answers with
partitions(bd, listing) ==
    LET out == probe(bd.path) \o <<Lsblk(bd.path)>> IN
    IF listing.out = "not a block device"
    THEN [out |-> out, ret |-> RetNone, exc |-> DiskError]
    ELSE IF listing.out # "json"
    THEN [out |-> out, ret |-> RetNone, exc |-> DiskError]
    ELSE LET r == listing.blockdevices
             parts == IF Len(r) > 0 /\ r[1].haschildren
                      THEN Children(bd.path, sDev \o r[1].name, r[1].children, 1, <<>>)
                      ELSE <<>>
         IN  [out |-> out,
              ret |-> [t |-> "dict", v |-> InOrder(parts, Sorted(DOMAIN parts), 1)],
              exc |-> NoExc]

s1G == <<"1","G">>

RECURSIVE ChildrenNamed(_, _, _)
ChildrenNamed(base, ids, i) ==
    IF i > Len(ids) THEN <<>>
    ELSE <<[name |-> base \o ids[i], size |-> s1G]>> \o ChildrenNamed(base, ids, i + 1)

Json(base, ids) ==
    [out |-> "json",
     blockdevices |-> <<[name |-> base, haschildren |-> TRUE,
                         children |-> ChildrenNamed(base, ids, 1)]>>]

\* what lsblk may answer for a device: its partitions in the order of the
\* table, a device without children, an empty listing, or no JSON at all
Listings(bd) ==
    LET base == Basename(bd.path) IN
    { Json(base, << <<"1">>, <<"2">> >>),
      Json(base, << <<"2">>, <<"1">> >>),
      Json(base, << <<"1">>, <<"2">>, <<"3">>, <<"4">>, <<"5">>, <<"6">>, <<"7">>,
                    <<"8">>, <<"9">>, <<"1","0">> >>),
      [out |-> "json",
       blockdevices |-> <<[name |-> base, haschildren |-> FALSE, children |-> <<>>]>>],
      [out |-> "json", blockdevices |-> <<>>],
      [out |-> "not a block device", blockdevices |-> <<>>],
      [out |-> "text", blockdevices |-> <<>>] }

\* reads of the two properties on one BlockDevice
MaxDevOps == 3

DevUnchanged ==
    UNCHANGED <<blockdevice, mode, pc, bodyExc, mounts, trueFormats, mapper, lpc,
                files>>

ReadDevice ==
    /\ nOps < MaxDevOps
    /\ LET d == Device(blockdevice, loopdevices) IN
         /\ cmds' = cmds \o d.queries
         /\ call' = [op |-> "device", args |-> <<>>, exc |-> d.exc, c0 |-> Len(cmds),
                     ret |-> IF d.val = None THEN RetNone ELSE RetStr(d.val)]
    /\ nOps' = nOps + 1
    /\ UNCHANGED <<loopdevices, lsblk, part>>
    /\ DevUnchanged

ReadPartitions ==
    /\ nOps < MaxDevOps
    /\ LET r == partitions(blockdevice, lsblk) IN
         /\ cmds' = cmds \o r.out
         /\ call' = [op |-> "partitions", args |-> <<>>, ret |-> r.ret,
                     exc |-> r.exc, c0 |-> Len(cmds)]
    /\ nOps' = nOps + 1
    /\ UNCHANGED <<loopdevices, lsblk, part>>
    /\ DevUnchanged

\* the caller keeps the first or the last Partition the last read returned,
\* formats it as btrfs and mounts it
UseReturned ==
    /\ call.op = "partitions"
    /\ call.ret.t = "dict"
    /\ call.ret.v # <<>>
    /\ part = NoPartition
    /\ \E i \in {1, Len(call.ret.v)} :
         LET formatted == format(call.ret.v[i].p, sBtrfs, {"UUID"})
             mounted == mount(formatted.part, pMnt, None, Empty, [ret |-> 0, errno |-> 0])
         IN  /\ part' = mounted.part
             /\ cmds' = cmds \o formatted.out
             /\ mounts' = mounts \o mounted.calls
    /\ UNCHANGED <<blockdevice, mode, pc, bodyExc, trueFormats, mapper, lpc, files,
                   loopdevices, lsblk, call, nOps>>

\* another process rewrites the partition table, or the device goes away
ListingChange ==
    /\ lsblk' \in Listings(blockdevice) \ {lsblk}
    /\ UNCHANGED <<loopdevices, cmds, call, nOps, part>>
    /\ DevUnchanged

InitDev ==
    /\ blockdevice \in BlockDevices
    /\ mode = GPT
    /\ loopdevices \in LoopTables
    /\ IsLoop(blockdevice) \/ loopdevices = <<>>
    /\ pc = "Unopened"
    /\ cmds = <<>>
    /\ call = NoCall
    /\ bodyExc = NoExc
    /\ nOps = 0
    /\ part = NoPartition
    /\ mounts = <<>>
    /\ trueFormats = 0
    /\ mapper = {}
    /\ lpc = "Out"
    /\ files = <<>>
    /\ lsblk \in Listings(blockdevice)

NextDev ==
    \/ ReadDevice
    \/ ReadPartitions
    \/ UseReturned
    \/ ListingChange
    \/ LosetupDetach

SpecDev == InitDev /\ [][NextDev]_vars

----------------------------------------------------------------------------
(* Properties of the partition-table session *)

Indexes(verb) == { i \in 1..Len(cmds) : cmds[i].verb = verb }

\* the commands the most recent call issued
Issued == SubSeq(cmds, call.c0 + 1, Len(cmds))

IsMkpart(c) == c.verb = "mkpart"
Mkparts == SelectSeq(Issued, IsMkpart)

C2_NonGptEntryFails ==
    (mode # GPT /\ pc # "Unopened") =>
        /\ pc = "Failed"
        /\ call.op = "__enter__"
        /\ call.exc.t = "DiskError"
        /\ cmds = <<>>

C2_Witness ==
    /\ mode # GPT
    /\ pc = "Failed"
    /\ IsLoop(blockdevice)
    /\ call.exc.t = "DiskError"

FailedLabels == { i \in Indexes("mklabel") : cmds[i].exit_code # 0 }

\* C3 as claimed: a sync is the last command of every session that ended, the
\* session whose label command failed included, and the exception of the body
\* reaches the caller.
C3_SyncOnEveryExit ==
    /\ pc = "Closed" =>
         /\ cmds # <<>> /\ cmds[Len(cmds)] = Sync
         /\ call.exc = bodyExc
    /\ (pc = "Failed" /\ FailedLabels # {}) =>
         cmds[Len(cmds)] = Sync

\* C3 as amended: a session whose entry succeeded ends with a sync as its last
\* command, whether or not the body raised, and the exception of the body
\* reaches the caller; a session whose entry failed issues no sync and its
\* DiskError reaches the caller.
C3_SyncAfterEntry ==
    /\ pc = "Closed" =>
         /\ cmds # <<>> /\ cmds[Len(cmds)] = Sync
         /\ call.op = "__exit__"
         /\ call.exc = bodyExc
    /\ pc = "Failed" =>
         /\ Indexes("") = {}
         /\ call.exc.t = "DiskError"

C3_Witness ==
    /\ pc = "Closed"
    /\ bodyExc.t = "DiskError"
    /\ call.exc.t = "DiskError"
    /\ Indexes("mkpart") # {}

\* C4: a label command that returns a non-zero exit code fails the entry with
\* DiskError, the session does not become active, no call of the body is made
\* and no parted command follows the label command; after a label command
\* that returned zero the entry has returned the session itself.
C4_FailedLabelFailsEntry ==
    /\ \A i \in FailedLabels :
         /\ pc = "Failed"
         /\ call.op = "__enter__"
         /\ call.exc.t = "DiskError"
         /\ nOps = 0
         /\ \A j \in (i + 1)..Len(cmds) : cmds[j].prog # "/usr/bin/parted"
    /\ (Indexes("mklabel") # {} /\ FailedLabels = {}) =>
         /\ pc # "Failed"
         /\ call.op = "__enter__" => call.ret.t = "self"

C4_Witness ==
    /\ FailedLabels # {}
    /\ pc = "Failed"
    /\ IsLoop(blockdevice)

\* C5: use_entire_disk issues exactly two partition-creation commands: the
\* FAT32-hinted primary partition 1MiB..513MiB, then for 'luks2' a primary
\* partition 513MiB..100% with no filesystem hint, and for any other
\* prep_mode a primary partition with the ext4 hint and the same fixed bounds
\* whatever the prep_mode.
C5_TwoMkparts ==
    (call.op = "use_entire_disk" /\ call.exc.t = "None") =>
        /\ Len(Mkparts) = 2
        /\ Mkparts[1].args = <<sPrimary, sFat32, s1MiB, s513MiB>>
        /\ IF call.args[1] = sLuks2
           THEN Mkparts[2].args = <<sPrimary, s513MiB, s100pct>>
           ELSE Mkparts[2].args = <<sPrimary, sExt4, s1MiB, s513MiB>>

C5_Witness ==
    /\ call.op = "use_entire_disk"
    /\ call.args[1] = sLvm
    /\ Len(Mkparts) = 2

DigitValue(c) ==
    CASE c = "0" -> 0 [] c = "1" -> 1 [] c = "2" -> 2 [] c = "3" -> 3
      [] c = "4" -> 4 [] c = "5" -> 5 [] c = "6" -> 6 [] c = "7" -> 7
      [] c = "8" -> 8 [] c = "9" -> 9

\* the number a text such as 513MiB starts with
RECURSIVE LeadingNumber(_, _, _)
LeadingNumber(s, i, acc) ==
    IF i > Len(s) \/ s[i] \notin {"0","1","2","3","4","5","6","7","8","9"}
    THEN acc
    ELSE LeadingNumber(s, i + 1, acc * 10 + DigitValue(s[i]))

\* position a of the disk is at or after position b; 100% is the end of the disk
AtOrAfter(a, b) ==
    \/ a = s100pct
    \/ b # s100pct /\ LeadingNumber(a, 1, 0) >= LeadingNumber(b, 1, 0)

StartOf(c) == c.args[Len(c.args) - 1]
EndOf(c) == c.args[Len(c.args)]

\* C6: in the layout of use_entire_disk the second partition starts at or
\* after the end of the boot partition, for every prep_mode.
C6_SecondFollowsBoot ==
    (call.op = "use_entire_disk" /\ call.exc.t = "None") =>
        AtOrAfter(StartOf(Mkparts[2]), EndOf(Mkparts[1]))

----------------------------------------------------------------------------
(* Properties of Partition *)

\* C7: mount with no fs argument, or an empty one, on a Partition whose
\* filesystem is None raises DiskError, makes no libc.mount call and leaves
\* mountpoint as it was.
C7_MountNeedsFilesystem ==
    [][ ( /\ nOps' = nOps + 1
          /\ call'.op = "mount"
          /\ call'.args[2] \in {None, Empty}
          /\ part.filesystem = None )
        => ( /\ call'.exc.t = "DiskError"
             /\ mounts' = mounts
             /\ part'.mountpoint = part.mountpoint ) ]_vars

C7_Witness ==
    /\ call.op = "mount"
    /\ call.args[2] = Empty
    /\ part.filesystem = None
    /\ call.exc.t = "DiskError"
    /\ trueFormats > 0

OkMounts == { i \in 1..Len(mounts) : mounts[i].ret >= 0 }

LastOkMount == CHOOSE i \in OkMounts : \A j \in OkMounts : j <= i

\* C8: mountpoint is None while no libc.mount call has returned non-negative,
\* and otherwise the target of the most recent one that did; a mount whose
\* kernel call returns negative raises OSError with the errno of that call; a
\* call that raises leaves mountpoint as it was, format never changes it, and
\* no step sets it back to None.
C8_MountpointFollowsMounts ==
    /\ [] ( /\ part.mountpoint =
                 IF OkMounts = {} THEN None ELSE mounts[LastOkMount].target
            /\ ( /\ call.op = "mount"
                 /\ Len(mounts) > call.c0
                 /\ mounts[Len(mounts)].ret < 0 )
               => ( /\ call.exc.t = "OSError"
                    /\ call.exc.errno = mounts[Len(mounts)].errno ) )
    /\ [][ /\ part.mountpoint # None => part'.mountpoint # None
           /\ call'.exc.t # "None" => part'.mountpoint = part.mountpoint
           /\ call'.op = "format" => part'.mountpoint = part.mountpoint ]_vars

C8_Witness ==
    /\ call.op = "mount"
    /\ call.args[1] = pBoot
    /\ call.exc.t = "OSError"
    /\ call.exc.errno = 19
    /\ part.mountpoint = pMnt

\* C9: format('btrfs') returns True and sets filesystem to btrfs when the
\* output holds UUID, and returns False leaving filesystem alone when it does
\* not; format('fat32') returns None when the output lacks both mkfs.fat and
\* mkfs.vfat or holds 'command not found', and True otherwise; any other kind
\* raises DiskError, runs no command and leaves filesystem alone.  So
\* filesystem is set only if some format call has returned True.
C9_FormatOutcome ==
    /\ [] (part.filesystem # None => trueFormats > 0)
    /\ [][ (nOps' = nOps + 1 /\ call'.op = "format") =>
           LET kind == call'.args[1]
               o == call'.args[2]
               ret == call'.ret
           IN  IF kind = sBtrfs
               THEN /\ call'.exc.t = "None"
                    /\ IF "UUID" \in o
                       THEN /\ ret.t = "bool" /\ ret.v
                            /\ part'.filesystem = sBtrfs
                       ELSE /\ ret.t = "bool" /\ ~ret.v
                            /\ part'.filesystem = part.filesystem
               ELSE IF kind = sFat32
               THEN /\ call'.exc.t = "None"
                    /\ IF \/ {"mkfs.fat", "mkfs.vfat"} \cap o = {}
                          \/ "command not found" \in o
                       THEN ret.t = "None"
                       ELSE ret.t = "bool" /\ ret.v
               ELSE /\ call'.exc.t = "DiskError"
                    /\ cmds' = cmds
                    /\ part'.filesystem = part.filesystem ]_vars

C9_Witness ==
    /\ call.op = "format"
    /\ call.args[1] = sFat32
    /\ call.ret.t = "bool" /\ call.ret.v
    /\ part.filesystem = sBtrfs

----------------------------------------------------------------------------
(* Properties of luks2 *)

\* C10: unlock returns a Partition exactly when the link /dev/mapper/<name>
\* exists once the unlock command has run, whatever the command exits with;
\* the Partition has the path /dev/mapper/<name> and neither filesystem nor
\* mountpoint; when the link is absent unlock returns None and raises nothing.
C10_UnlockFollowsLink ==
    call.op = "unlock" =>
        LET name == call.args[1] IN
        /\ call.exc.t = "None"
        /\ call.ret.t \in {"Partition", "None"}
        /\ call.ret.t = "Partition" <=> (sMapper \o name) \in mapper
        /\ call.ret.t = "Partition" =>
             /\ call.ret.v.path = sMapper \o name
             /\ call.ret.v.filesystem = None
             /\ call.ret.v.mountpoint = None

C10_Witness ==
    /\ call.op = "unlock"
    /\ call.ret.t = "Partition"
    /\ call.args[1] = sSub
    /\ cmds[Len(cmds)].verb = "open"
    /\ cmds[Len(cmds)].exit_code # 0


\* C11: close(name) issues the teardown command for /dev/mapper/<name> and
\* returns True exactly when that link does not exist once the command has
\* run, False exactly when it still does; closing a mapping that was never
\* opened returns True.
C11_CloseFollowsLink ==
    call.op = "close" =>
        LET name == call.args[1] IN
        /\ Issued = <<Cmd("cryptsetup", "close", sMapper \o name, 0, <<>>,
                          cmds[Len(cmds)].exit_code)>>
        /\ call.exc.t = "None"
        /\ call.ret.t = "bool"
        /\ call.ret.v <=> (sMapper \o name) \notin mapper

C11_Witness ==
    /\ call.op = "close"
    /\ call.ret.t = "bool" /\ call.ret.v
    /\ call.args[1] = sSub
    /\ Indexes("open") = {}
    /\ cmds[Len(cmds)].exit_code # 0


\* C12: encrypt writes the password bytes to the key-file before it runs the
\* luksFormat command, which names that key-file; it returns the key-file path
\* exactly when the output of the command holds 'Command successful.', and
\* otherwise raises DiskError and returns nothing.
C12_EncryptOutcome ==
    call.op = "encrypt" =>
        LET password == call.args[1]
            key_file == call.args[2]
            o == call.args[3]
            used == IF key_file \in {None, Empty}
                    THEN sTmp \o Basename(Device(blockdevice, loopdevices).val)
                              \o sDiskPw
                    ELSE key_file
            c == cmds[Len(cmds)]
        IN  /\ Len(Issued) = 1
            /\ c.verb = "luksFormat"
            /\ c.args[4] \in DOMAIN files
            /\ files[c.args[4]].at < Len(cmds)
            /\ files[c.args[4]].data = <<112, 119>>
            /\ c.args[4] = IF used[1] = "/" THEN used ELSE sCwd \o <<"/">> \o used
            /\ call.ret.t = "str" <=> "Command successful." \in o
            /\ call.ret.t = "str" => (call.ret.v = used /\ call.exc.t = "None")
            /\ call.ret.t # "str" => (call.ret.t = "None" /\ call.exc.t = "DiskError")

C12_Witness ==
    /\ call.op = "encrypt"
    /\ call.ret.t = "str"
    /\ call.args[1].t = "str"
    /\ call.args[2] = None
    /\ blockdevice.path = pDm0

Teardowns == { i \in 1..Len(cmds) : cmds[i].verb = "close" }

\* C17: a teardown command is issued only by close; leaving the luks2 scope
\* or the Filesystem scope, normally or with an exception, issues none and
\* leaves every link under /dev/mapper where it is; the exception in flight
\* when the luks2 scope is left is the one that leaves it.
C17_TeardownOnlyByClose ==
    /\ [] (call.op = "luks2.__exit__" => call.exc = call.args[1])
    /\ [][ /\ Teardowns' # Teardowns => call'.op = "close"
           /\ (lpc' = "Left" /\ lpc # "Left") =>
                (mapper' = mapper /\ Teardowns' = Teardowns)
           /\ (pc' = "Closed" /\ pc # "Closed") =>
                (mapper' = mapper /\ Teardowns' = Teardowns) ]_vars

C17_Witness ==
    /\ pc = "Closed"
    /\ lpc = "Left"
    /\ call.exc.t = "DiskError"
    /\ (sMapper \o sSub) \in mapper
    /\ Indexes("open") # {}
    /\ Teardowns = {}


----------------------------------------------------------------------------
(* Properties of BlockDevice *)

\* the commands the step issues
IssuedByStep == SubSeq(cmds', Len(cmds) + 1, Len(cmds'))

\* C13: a read of `device` resolves by the recorded type: no type raises
\* DiskError; a disk is its own path; a crypt device is /dev/<pkname> and
\* raises DiskError without a pkname; a loop device is the back-file of the
\* entry of the loop table, as it stands at the read, whose name is the
\* path.  Only the loop case asks the system anything.
C13_DeviceResolution ==
    [][ (call'.op = "device" /\ nOps' = nOps + 1) =>
            LET info == blockdevice.info
                path == blockdevice.path
            IN  IF ~HasKey(info, "type")
                THEN call'.exc.t = "DiskError" /\ IssuedByStep = <<>>
                ELSE /\ info["type"] = sDisk =>
                            /\ call'.exc.t = "None"
                            /\ call'.ret = RetStr(path)
                            /\ IssuedByStep = <<>>
                     /\ (info["type"] = sCrypt /\ HasKey(info, "pkname")) =>
                            /\ call'.exc.t = "None"
                            /\ call'.ret = RetStr(sDev \o info["pkname"])
                            /\ IssuedByStep = <<>>
                     /\ (info["type"] = sCrypt /\ ~HasKey(info, "pkname")) =>
                            /\ call'.exc.t = "DiskError"
                            /\ IssuedByStep = <<>>
                     /\ info["type"] = sLoop =>
                            /\ call'.exc.t = "None"
                            /\ IssuedByStep = <<Losetup>>
                            /\ \A i \in DOMAIN loopdevices :
                                   loopdevices[i].name = path =>
                                       call'.ret = RetStr(loopdevices[i].backfile)
                     /\ info["type"] # sLoop => IssuedByStep = <<>> ]_vars

\* a loop device read through a table in which another entry comes first
C13_Witness ==
    /\ call.op = "device"
    /\ IsLoop(blockdevice)
    /\ call.ret = RetStr(pImg)
    /\ Issued = <<Losetup>>

\* C20: every read of `device` either raises DiskError or returns a path
C20_DeviceAlwaysResolves ==
    call.op = "device" => (call.exc.t = "DiskError" \/ call.ret.t = "str")


\* C14: the ids are the children's names without the parent's base name, each
\* path is the parent's path plus the id, and the partitions come in
\* ascending order of partition number
C14_AscendingByNumber ==
    (call.op = "partitions" /\ call.ret.t = "dict") =>
        LET r == call.ret.v IN
        /\ \A i \in DOMAIN r :
               /\ r[i].p.part_id = r[i].k
               /\ r[i].p.path = blockdevice.path \o r[i].k
        /\ \A i, j \in DOMAIN r :
               i < j => LeadingNumber(r[i].k, 1, 0) < LeadingNumber(r[j].k, 1, 0)

\* the ids the listing holds at this moment
ListedIds ==
    IF lsblk.out = "json" /\ Len(lsblk.blockdevices) > 0
           /\ lsblk.blockdevices[1].haschildren
    THEN { SubSeq(c.name, Len(Basename(blockdevice.path)) + 1, Len(c.name)) :
               c \in { lsblk.blockdevices[1].children[i] :
                           i \in DOMAIN lsblk.blockdevices[1].children } }
    ELSE {}

\* C16: every read of `partitions` re-reads the partition table and then asks
\* for a listing, and answers from that listing alone: the ids are those
\* listed at the read, whatever an earlier read returned and whatever was
\* recorded on a Partition it returned, and every Partition returned has no
\* filesystem and no mountpoint
C16_ReadsAreFresh ==
    /\ [] ((call.op = "partitions" /\ call.ret.t = "dict") =>
               \A i \in DOMAIN call.ret.v :
                   /\ call.ret.v[i].p.filesystem = None
                   /\ call.ret.v[i].p.mountpoint = None)
    /\ [][ (call'.op = "partitions" /\ nOps' = nOps + 1) =>
               /\ Len(IssuedByStep) = 2
               /\ IssuedByStep[1].prog = "partprobe"
               /\ IssuedByStep[1].dev = blockdevice.path
               /\ IssuedByStep[2] = Lsblk(blockdevice.path)
               /\ IF lsblk.out # "json"
                  THEN call'.exc.t = "DiskError"
                  ELSE /\ call'.exc.t = "None"
                       /\ call'.ret.t = "dict"
                       /\ {call'.ret.v[i].k : i \in DOMAIN call'.ret.v} = ListedIds
                       /\ Len(call'.ret.v) = Cardinality(ListedIds)
                       /\ \A i \in DOMAIN call'.ret.v :
                              call'.ret.v[i].p =
                                  Partition(sDev \o lsblk.blockdevices[1].name
                                                \o call'.ret.v[i].k,
                                            call'.ret.v[i].k, s1G) ]_vars

\* the last Partition of a two-partition table was formatted and mounted, the
\* table grew to ten partitions, and the next read lists them afresh
C16_Witness ==
    /\ call.op = "partitions"
    /\ call.ret.t = "dict"
    /\ Len(call.ret.v) = 10
    /\ part.part_id = <<"2">>
    /\ part.filesystem = sBtrfs
    /\ part.mountpoint = pMnt
    /\ \E i \in DOMAIN call.ret.v :
           /\ call.ret.v[i].p.path = part.path
           /\ call.ret.v[i].p.filesystem = None
           /\ call.ret.v[i].p.mountpoint = None


----------------------------------------------------------------------------
(* Properties of the operations inside the session *)

IsParted(c) == c.prog = "/usr/bin/parted"

\* the parted commands of the latest call
PartedIssued == SelectSeq(Issued, IsParted)

\* C15: set_name(i, ...) and set(i, ...) issue one parted command, on
\* partition number i + 1; add_partition, set_name and set return whether
\* the exit code of their one command is zero and never raise.  A device that
\* is not a loop device is addressed as the label of the session was, with
\* nothing else issued.
C15_OneCommandOneBoolean ==
    call.op \in {"add_partition", "set_name", "set"} =>
        /\ Len(PartedIssued) = 1
        /\ call.exc.t = "None"
        /\ call.ret.t = "bool"
        /\ call.ret.v <=> PartedIssued[1].exit_code = 0
        /\ call.op = "add_partition" => PartedIssued[1].verb = "mkpart"
        /\ call.op = "set_name" =>
               /\ PartedIssued[1].verb = "name"
               /\ PartedIssued[1].num = call.args[1] + 1
               /\ PartedIssued[1].args = <<call.args[2]>>
        /\ call.op = "set" =>
               /\ PartedIssued[1].verb = "set"
               /\ PartedIssued[1].num = call.args[1] + 1
               /\ PartedIssued[1].args = <<call.args[2]>>
        /\ ~IsLoop(blockdevice) =>
               /\ Len(Issued) = 1
               /\ \A i \in Indexes("mklabel") : cmds[i].dev = PartedIssued[1].dev

\* naming the second partition fails and is reported as false
C15_Witness ==
    /\ call.op = "set_name"
    /\ call.args[1] = 1
    /\ Len(PartedIssued) = 1
    /\ PartedIssued[1].num = 2
    /\ PartedIssued[1].exit_code = 1
    /\ call.ret = RetBool(FALSE)

\* C19: use_entire_disk issues five parted commands: the boot partition, the
\* name EFI, boot on and esp on for partition 1, and the second partition,
\* whatever their exit codes, and returns nothing
C19_FiveCommandsRegardless ==
    call.op = "use_entire_disk" =>
        /\ Len(PartedIssued) = 5
        /\ PartedIssued[1].verb = "mkpart"
        /\ PartedIssued[1].args = <<sPrimary, sFat32, s1MiB, s513MiB>>
        /\ PartedIssued[2].verb = "name"
        /\ PartedIssued[2].num = 1
        /\ PartedIssued[2].args = <<sEFI>>
        /\ PartedIssued[3].verb = "set"
        /\ PartedIssued[3].num = 1
        /\ PartedIssued[3].args = <<sBootOn>>
        /\ PartedIssued[4].verb = "set"
        /\ PartedIssued[4].num = 1
        /\ PartedIssued[4].args = <<sEspOn>>
        /\ PartedIssued[5].verb = "mkpart"
        /\ call.exc.t = "None"
        /\ call.ret = RetNone

\* the boot partition could not be created and the other four commands ran
C19_Witness ==
    /\ call.op = "use_entire_disk"
    /\ Len(PartedIssued) = 5
    /\ PartedIssued[1].exit_code = 1
    /\ PartedIssued[5].verb = "mkpart"
    /\ call.ret = RetNone


----------------------------------------------------------------------------
(* Format, then mount *)

\* C18: once format(kind) has returned true the Partition's filesystem is
\* that kind, so that a mount without an fs argument knows it
C18_FormatRecordsFilesystem ==
    (call.op = "format" /\ call.exc.t = "None" /\ call.ret = RetBool(TRUE)) =>
        part.filesystem = call.args[1]

====
